---- MODULE Spec2Model ----
(***************************************************************************)
(* Model of the filesystem benchmark engine: BenchmarkRunner               *)
(* (scripts/benchmarks.py) and MetadataOperations (scripts/metadata.py).   *)
(*                                                                         *)
(* Units.  Large-file sizes and the read buffer are counted in MB          *)
(* (1 MB = 1024*1024 bytes), small-file sizes in KB.  Every size the       *)
(* model draws is a whole number of these units, so no rounding is lost.   *)
(*                                                                         *)
(* Config.  The environment fixes every Config value before the run.  The  *)
(* sizes list and LATENCY_SAMPLES are drawn in Init; READ_BUFFER_SIZE,     *)
(* RANDOM_APPEND_SIZE_KB and METADATA_OPERATIONS_COUNT are drawn by the    *)
(* action in which the code first reads them and are kept from then on     *)
(* (0 = not read yet), which yields the same behaviours.                   *)
(*                                                                         *)
(* Every blocking I/O call of the code (open, write, read, touch, chmod,   *)
(* unlink) can either succeed or raise; every time.time() difference is    *)
(* an input of the action that computes it.  time.time() is the wall       *)
(* clock: in Spec nobody sets it back during the call, in SpecSkew it may  *)
(* be set back, and a difference of two readings may then be negative.     *)
(***************************************************************************)
EXTENDS Integers, Sequences, FiniteSets, TLC

(* ------------------------------ bounds --------------------------------- *)
MaxSizeGB == 2          \* configured large-file sizes are drawn from 1..MaxSizeGB
MaxSamples == 2         \* LATENCY_SAMPLES is drawn from {1, MaxSamples, 12}
MaxSmallFiles == 2      \* the small-files directory holds 0..MaxSmallFiles files
MaxMetaCount == 3       \* METADATA_OPERATIONS_COUNT is drawn from 1..MaxMetaCount
MaxLatency == 3         \* a latency sample is drawn from 0..MaxLatency
MaxLatLen == 3          \* _calculate_percentiles is given 0..MaxLatLen samples

(* ------------------------- program constants --------------------------- *)
MBPerGB == 1024         \* size_mb = size_gb * 1024
ChunkSizeMB == 100      \* chunk_size_mb = 100

Absent == 0 - 1         \* on-disk size of a file that does not exist

(* --------------------------- pure helpers ------------------------------ *)
Min(a, b) == IF a < b THEN a ELSE b

CeilDiv(a, b) == (a + b - 1) \div b

RECURSIVE Perms(_)
Perms(S) ==
    IF S = {} THEN {<<>>}
    ELSE UNION {{<<x>> \o p : p \in Perms(S \ {x})} : x \in S}

NonEmptySubsets(S) == SUBSET S \ {{}}

\* Config.get_large_file_sizes_gb(): the configured list, in configured order.
SizeLists == UNION {Perms(S) : S \in NonEmptySubsets(1..MaxSizeGB)}

\* size_mb = size_gb * 1024
SizeMB(size_gb) == size_gb * MBPerGB

\* total_chunks = size_mb // chunk_size_mb
TotalChunks(size_gb) == SizeMB(size_gb) \div ChunkSizeMB

\* FileGenerator.generate_large_files: chunks = size_bytes // chunk_size,
\* each chunk 100 MB.
GeneratedSizeMB(size_gb) == (SizeMB(size_gb) \div ChunkSizeMB) * ChunkSizeMB

\* FileGenerator.generate_small_files writes size_kb * 1024 bytes to file_<i>.txt;
\* the model gives every file its own size so that files are told apart.
GeneratedSmallKB(f) == f

\* Config.READ_BUFFER_SIZE, in MB; large buffers keep the read loops short.
BufferSizesMB == {250, 500}

\* Config.RANDOM_APPEND_SIZE_KB
AppendSizesKB == {1, 2}

Phases == <<"sequential_write", "sequential_read", "random_rw", "metadata">>

NoErr == [kind |-> "none", at |-> "none"]
Err(k, a) == [kind |-> k, at |-> a]

(* ------------------------------- state --------------------------------- *)
VARIABLES
    cfg,          \* Config: sizes, buffer, samples, append, metaCount
    entry,        \* the public method the caller invoked
    pc,           \* position of the single thread of control
    large,        \* large[s]: size in MB of file_<s>GB.bin, or Absent
    large0,       \* the value of large when the call started
    small,        \* small[f]: size in KB of file_<f>.txt
    small0,       \* the value of small when the call started
    meta,         \* the i for which meta_<i>.txt exists
    started,      \* run_all_benchmarks: phases started, in order
    completed,    \* run_all_benchmarks: phases whose call returned, in order
    results,      \* run_all_benchmarks: the results dict
    returned,     \* <<v>> once the invoked method returned v, else <<>>
    callerErr,    \* the exception that reached the caller, or NoErr
    origErr,      \* the first exception raised during the call, or NoErr
    seqResults,   \* the results list of sequential_*_multi_size
    sizeIdx,      \* index into cfg.sizes of the size being processed
    i,            \* loop index of the running loop
    latencies,    \* latencies list: <<kind, index, seconds>> of the operations sampled
    operations,   \* operations counter of _sequential_read_single
    pos,          \* read offset (MB) of the open file
    fileSizeMb,   \* file_size_mb local of _sequential_read_single
    lastSample,   \* event order of the most recent read latency sample
    files,        \* files list of random_file_read_write (enumeration order)
    readCount,    \* readCount[f]: full reads of file_<f>.txt during the call
    appendCount,  \* appendCount[f]: appends to file_<f>.txt during the call
    count,        \* count local of run_metadata_tests
    file_paths,   \* file_paths list of run_metadata_tests
    created,      \* indices touched by the create pass
    chmoded,      \* indices chmod-ed by the chmod pass
    deleted,      \* indices unlinked by the delete pass
    cleaned,      \* indices unlinked by the cleanup of the except clause
    cleanupErrs,  \* indices whose cleanup unlink raised (suppressed)
    opsDone,      \* create + chmod + unlink operations performed by the passes
    exc,          \* the exception held by the except clause of run_metadata_tests
    clock,        \* "steady", or "set_back" when the wall clock may be set back
    mainStep,     \* main(): index into MainSteps of the next step, 0 outside main
    invoked,      \* main(): the steps invoked so far, in order
    exitStatus,   \* exit status of the process, NoExit while it runs
    pctIn,        \* _calculate_percentiles: the latencies argument
    pctRanks,     \* Config.get_latency_percentiles(), in tenths of a percent
    pctOut,       \* _calculate_percentiles: the returned mapping
    pctDone       \* _calculate_percentiles has returned

cfgVars   == <<cfg, entry>>
diskVars  == <<large, large0, small, small0, meta>>
runVars   == <<started, completed, results>>
outVars   == <<returned, callerErr, origErr>>
seqVars   == <<seqResults, sizeIdx, latencies, operations, pos, fileSizeMb, lastSample>>
rwVars    == <<files, readCount, appendCount>>
metaVars  == <<count, file_paths, created, chmoded, deleted, cleaned, cleanupErrs, opsDone, exc>>

mainVars  == <<mainStep, invoked, exitStatus>>
pctVars   == <<pctIn, pctRanks, pctOut, pctDone>>
auxVars   == <<clock, mainVars, pctVars>>

vars == <<cfgVars, diskVars, runVars, outVars, seqVars, rwVars, metaVars, pc, i, auxVars>>

EmptyResults ==
    [sequential_write |-> <<>>, sequential_read |-> <<>>,
     random_rw |-> <<>>, metadata |-> <<>>]

NoExit == 0 - 1

NoSample == [op |-> 0, readAt |-> 0, startAt |-> 0, processAt |-> 0, stopAt |-> 0]

\* The state before the caller's call, for a given set of configurations,
\* numbers of small files and behaviours of the wall clock.
InitWith(sizeLists, sampleCaps, smallCounts, clocks) ==
    /\ cfg \in [sizes     : sizeLists,
                samples   : sampleCaps,
                buffer    : {0},
                append    : {0},
                metaCount : {0}]
    /\ clock \in clocks
    /\ mainStep = 0
    /\ invoked = <<>>
    /\ exitStatus = NoExit
    /\ entry = "none"
    /\ pc = "idle"
    \* the generator wrote the fixtures of the first k configured sizes
    /\ \E k \in 0..Len(cfg.sizes) :
         large = [s \in 1..MaxSizeGB |->
                    IF \E j \in 1..k : cfg.sizes[j] = s
                    THEN GeneratedSizeMB(s) ELSE Absent]
    /\ large0 = large
    /\ \E n \in smallCounts : small = [f \in 1..n |-> GeneratedSmallKB(f)]
    /\ small0 = small
    /\ meta = {}
    /\ started = <<>>
    /\ completed = <<>>
    /\ results = EmptyResults
    /\ returned = <<>>
    /\ callerErr = NoErr
    /\ origErr = NoErr
    /\ seqResults = <<>>
    /\ sizeIdx = 0
    /\ i = 0
    /\ latencies = <<>>
    /\ operations = 0
    /\ pos = 0
    /\ fileSizeMb = 0
    /\ lastSample = NoSample
    /\ files = <<>>
    /\ readCount = [f \in DOMAIN small |-> 0]
    /\ appendCount = [f \in DOMAIN small |-> 0]
    /\ count = 0
    /\ file_paths = <<>>
    /\ created = {}
    /\ chmoded = {}
    /\ deleted = {}
    /\ cleaned = {}
    /\ cleanupErrs = {}
    /\ opsDone = 0
    /\ exc = NoErr

\* Config.LATENCY_SAMPLES: the smallest cap, a cap of MaxSamples (both below
\* the number of chunks of every file), and one cap above the 10 chunks of a
\* 1 GB file.
SampleCaps == {1, MaxSamples, 12}

\* _calculate_percentiles is not being followed.
NoPercentileCall ==
    /\ pctIn = <<>>
    /\ pctRanks = <<>>
    /\ pctOut = <<>>
    /\ pctDone = FALSE

Init == InitWith(SizeLists, SampleCaps, 0..MaxSmallFiles, {"steady"}) /\ NoPercentileCall

(* ----------------------- call, return and raise ------------------------ *)
\* "except Exception as e: ...; raise" re-raises the exception it caught.
ReraiseWrapped(e) == Err("RuntimeError", e.at)
Reraise(e) == e

Return(v) ==
    /\ pc' = "returned"
    /\ returned' = <<v>>
    /\ UNCHANGED <<callerErr, origErr>>

Raise(e) ==
    /\ pc' = "raised"
    /\ origErr' = e
    /\ callerErr' = Reraise(e)
    /\ UNCHANGED returned

\* The order in which run_all_benchmarks calls the phases.
PhaseAfterSwapped(p) ==
    CASE p = "sequential_write" -> "random_rw"
      [] p = "random_rw"        -> "sequential_read"
      [] p = "sequential_read"  -> "metadata"
      [] OTHER                  -> "none"
PhaseAfter(p) ==
    CASE p = "sequential_write" -> "sequential_read"
      [] p = "sequential_read"  -> "random_rw"
      [] p = "random_rw"        -> "metadata"
      [] OTHER                  -> "none"

BeginPc(p) ==
    CASE p = "sequential_write" -> "sw_begin"
      [] p = "sequential_read"  -> "sr_begin"
      [] p = "random_rw"        -> "rw_begin"
      [] p = "metadata"         -> "md_begin"

\* A phase function returned v.  Under run_all_benchmarks the value is stored
\* in results and the next phase is started (or results is returned after the
\* last phase); called directly, v goes to the caller.
FinishPhase(p, v) ==
    IF entry = "run_all"
    THEN /\ completed' = Append(completed, p)
         /\ results' = [results EXCEPT ![p] = v]
         /\ IF PhaseAfter(p) = "none"
            THEN /\ Return(results')
                 /\ UNCHANGED started
            ELSE /\ started' = Append(started, PhaseAfter(p))
                 /\ pc' = BeginPc(PhaseAfter(p))
                 /\ UNCHANGED outVars
    ELSE /\ Return(v)
         /\ UNCHANGED runVars

\* The caller invokes one public method.
CallRunAll ==
    /\ pc = "idle"
    /\ entry' = "run_all"
    /\ results' = EmptyResults
    /\ started' = <<"sequential_write">>
    /\ pc' = BeginPc("sequential_write")
    /\ UNCHANGED <<cfg, diskVars, completed, outVars, seqVars, rwVars, metaVars, i>>
    /\ UNCHANGED auxVars

CallDirect(p) ==
    /\ pc = "idle"
    /\ entry' = p
    /\ pc' = BeginPc(p)
    /\ UNCHANGED <<cfg, diskVars, runVars, outVars, seqVars, rwVars, metaVars, i>>
    /\ UNCHANGED auxVars

CallSequentialWrite == CallDirect("sequential_write")
CallSequentialRead  == CallDirect("sequential_read")
CallRandomRW        == CallDirect("random_rw")

(* --------------------------- metric records ---------------------------- *)
\* BenchmarkMetrics.  throughput_mbps and iops are kept as exact ratios
\* <<numerator, denominator>>; latencies holds the sampled operation indices
\* from which latency_percentiles is computed.
Metric(name, elapsed, fileMb, tputMb, ops, lat) ==
    [test_name        |-> name,
     elapsed_sec      |-> elapsed,
     throughput_mbps  |-> <<tputMb, elapsed>>,
     iops             |-> <<ops, elapsed>>,
     latencies        |-> lat,
     file_size_mb     |-> fileMb,
     operations_count |-> ops]

\* time.time() - overall_start, as the finishing action observes it.
ElapsedVals == IF clock = "set_back" THEN {0 - 1, 0, 1} ELSE {0, 1}

\* time.time() - chunk_start (op_start) of one sampled operation.
LatencyVals == IF clock = "set_back" THEN {0 - 1, 1} ELSE {1}

\* "for size_gb in Config.get_large_file_sizes_gb()": the size of the
\* iteration in progress.
CurSizeSorted ==
    CHOOSE s \in {cfg.sizes[k] : k \in 1..Len(cfg.sizes)} :
        Cardinality({k \in 1..Len(cfg.sizes) : cfg.sizes[k] < s}) = sizeIdx - 1
CurSize == cfg.sizes[sizeIdx]

(* ------------------------- sequential write ---------------------------- *)
SequentialWriteMultiSize ==
    /\ pc = "sw_begin"
    /\ seqResults' = <<>>
    /\ sizeIdx' = 1
    /\ pc' = "sw_open"
    /\ UNCHANGED <<cfgVars, diskVars, runVars, outVars, latencies, operations, pos,
                   fileSizeMb, lastSample, rwVars, metaVars, i>>
    /\ UNCHANGED auxVars

\* open(file_path, "wb") creates the file or truncates it.
WriteOpen ==
    /\ pc = "sw_open"
    /\ large' = [large EXCEPT ![CurSize] = 0]
    /\ latencies' = <<>>
    /\ i' = 0
    /\ pc' = "sw_chunk"
    /\ UNCHANGED <<cfgVars, large0, small, small0, meta, runVars, outVars, seqResults,
                   sizeIdx, operations, pos, fileSizeMb, lastSample, rwVars, metaVars>>
    /\ UNCHANGED auxVars

WriteOpenFail ==
    /\ pc = "sw_open"
    /\ Raise(Err("OSError", "sw_open"))
    /\ UNCHANGED <<cfgVars, diskVars, runVars, seqVars, rwVars, metaVars, i>>
    /\ UNCHANGED auxVars

\* sample_size = min(Config.LATENCY_SAMPLES, total_chunks)
WriteSampleSize(size_gb) == Min(cfg.samples, TotalChunks(size_gb))

\* "if i < sample_size": is the latency of chunk idx recorded?
WriteSampledSuffix(idx, size_gb) == idx >= TotalChunks(size_gb) - WriteSampleSize(size_gb)
WriteSampled(idx, size_gb) == idx < WriteSampleSize(size_gb)

\* One iteration of "for i in range(total_chunks)".
WriteChunk ==
    /\ pc = "sw_chunk"
    /\ i < TotalChunks(CurSize)
    /\ large' = [large EXCEPT ![CurSize] = @ + ChunkSizeMB]
    /\ IF WriteSampled(i, CurSize)
       THEN \E lat \in LatencyVals : latencies' = Append(latencies, <<"write", i, lat>>)
       ELSE UNCHANGED latencies
    /\ i' = i + 1
    /\ UNCHANGED <<cfgVars, large0, small, small0, meta, runVars, outVars, seqResults,
                   sizeIdx, operations, pos, fileSizeMb, lastSample, rwVars, metaVars, pc>>
    /\ UNCHANGED auxVars

WriteChunkFail ==
    /\ pc = "sw_chunk"
    /\ i < TotalChunks(CurSize)
    /\ Raise(Err("OSError", "sw_chunk"))
    /\ UNCHANGED <<cfgVars, diskVars, runVars, seqVars, rwVars, metaVars, i>>
    /\ UNCHANGED auxVars

\* After the loop: the metrics of this size; then the next size, or the list
\* is returned.
WriteFinish ==
    /\ pc = "sw_chunk"
    /\ i = TotalChunks(CurSize)
    /\ \E elapsed \in ElapsedVals \ {0} :
         LET m == Metric(<<"Sequential Write", CurSize>>, elapsed, SizeMB(CurSize),
                         SizeMB(CurSize), TotalChunks(CurSize), latencies)
         IN  /\ seqResults' = Append(seqResults, m)
             /\ IF sizeIdx < Len(cfg.sizes)
                THEN /\ sizeIdx' = sizeIdx + 1
                     /\ pc' = "sw_open"
                     /\ UNCHANGED <<runVars, outVars>>
                ELSE /\ FinishPhase("sequential_write", seqResults')
                     /\ UNCHANGED sizeIdx
    /\ UNCHANGED <<cfgVars, diskVars, latencies, operations, pos, fileSizeMb, lastSample,
                   rwVars, metaVars, i>>
    /\ UNCHANGED auxVars

\* size_mb / metrics.elapsed_sec with elapsed_sec = 0.0 raises ZeroDivisionError.
WriteFinishFail ==
    /\ pc = "sw_chunk"
    /\ i = TotalChunks(CurSize)
    /\ 0 \in ElapsedVals
    /\ Raise(Err("ZeroDivisionError", "sw_finish"))
    /\ UNCHANGED <<cfgVars, diskVars, runVars, seqVars, rwVars, metaVars, i>>
    /\ UNCHANGED auxVars

(* -------------------------- sequential read ---------------------------- *)
\* Path(file_path).exists()
ExistsAlways(size_gb) == TRUE
Exists(size_gb) == large[size_gb] # Absent

SequentialReadMultiSize ==
    /\ pc = "sr_begin"
    /\ \E b \in BufferSizesMB : cfg' = [cfg EXCEPT !.buffer = b]
    /\ seqResults' = <<>>
    /\ sizeIdx' = 1
    /\ pc' = "sr_check"
    /\ UNCHANGED <<entry, diskVars, runVars, outVars, latencies, operations, pos,
                   fileSizeMb, lastSample, rwVars, metaVars, i>>
    /\ UNCHANGED auxVars

\* "if not Path(file_path).exists(): raise FileNotFoundError"
ReadNotFound ==
    /\ pc = "sr_check"
    /\ ~Exists(CurSize)
    /\ Raise(Err("FileNotFoundError", "sr_check"))
    /\ UNCHANGED <<cfgVars, diskVars, runVars, seqVars, rwVars, metaVars, i>>
    /\ UNCHANGED auxVars

\* stat, then open(file_path, "rb")
ReadOpen ==
    /\ pc = "sr_check"
    /\ Exists(CurSize)
    /\ fileSizeMb' = large[CurSize]
    /\ latencies' = <<>>
    /\ operations' = 0
    /\ pos' = 0
    /\ i' = 0
    /\ lastSample' = NoSample
    /\ pc' = "sr_read"
    /\ UNCHANGED <<cfgVars, diskVars, runVars, outVars, seqResults, sizeIdx, rwVars, metaVars>>
    /\ UNCHANGED auxVars

ReadOpenFail ==
    /\ pc = "sr_check"
    /\ Exists(CurSize)
    /\ Raise(Err("OSError", "sr_open"))
    /\ UNCHANGED <<cfgVars, diskVars, runVars, seqVars, rwVars, metaVars, i>>
    /\ UNCHANGED auxVars

\* One iteration of "while chunk := f.read(buffer_size)" that got bytes.  i
\* numbers the events of this file's read loop: the read call, and for a
\* sampled operation the timer start, the processing of the bytes and the
\* timer stop, in the order the code performs them.
ReadChunk ==
    /\ pc = "sr_read"
    /\ pos < large[CurSize]
    /\ pos' = pos + Min(cfg.buffer, large[CurSize] - pos)
    /\ operations' = operations + 1
    /\ IF operations' <= cfg.samples
       THEN /\ \E lat \in LatencyVals :
                 latencies' = Append(latencies, <<"read", operations', lat>>)
            /\ lastSample' = [op |-> operations', readAt |-> i + 1, startAt |-> i + 2,
                              processAt |-> i + 3, stopAt |-> i + 4]
            /\ i' = i + 4
       ELSE /\ i' = i + 1
            /\ UNCHANGED <<latencies, lastSample>>
    /\ UNCHANGED <<cfgVars, diskVars, runVars, outVars, seqResults, sizeIdx, fileSizeMb,
                   rwVars, metaVars, pc>>
    /\ UNCHANGED auxVars

ReadChunkFail ==
    /\ pc = "sr_read"
    /\ pos < large[CurSize]
    /\ Raise(Err("OSError", "sr_read"))
    /\ UNCHANGED <<cfgVars, diskVars, runVars, seqVars, rwVars, metaVars, i>>
    /\ UNCHANGED auxVars

\* f.read returned b"": the loop ends; the metrics of this size.
ReadFinish ==
    /\ pc = "sr_read"
    /\ pos = large[CurSize]
    /\ \E elapsed \in ElapsedVals \ {0} :
         LET m == Metric(<<"Sequential Read", CurSize>>, elapsed, fileSizeMb,
                         fileSizeMb, operations, latencies)
         IN  /\ seqResults' = Append(seqResults, m)
             /\ IF sizeIdx < Len(cfg.sizes)
                THEN /\ sizeIdx' = sizeIdx + 1
                     /\ pc' = "sr_check"
                     /\ UNCHANGED <<runVars, outVars>>
                ELSE /\ FinishPhase("sequential_read", seqResults')
                     /\ UNCHANGED sizeIdx
    /\ UNCHANGED <<cfgVars, diskVars, latencies, operations, pos, fileSizeMb, lastSample,
                   rwVars, metaVars, i>>
    /\ UNCHANGED auxVars

ReadFinishFail ==
    /\ pc = "sr_read"
    /\ pos = large[CurSize]
    /\ 0 \in ElapsedVals
    /\ Raise(Err("ZeroDivisionError", "sr_finish"))
    /\ UNCHANGED <<cfgVars, diskVars, runVars, seqVars, rwVars, metaVars, i>>
    /\ UNCHANGED auxVars

(* ---------------------- random small-file read/write ------------------- *)
\* files = list(dir_path.glob("file_*.txt")): every file once, in the order
\* the listing yields.
GlobOrders == Perms(DOMAIN small)

RandomFileReadWrite ==
    /\ pc = "rw_begin"
    /\ DOMAIN small # {}
    /\ \E order \in GlobOrders : files' = order
    /\ \E a \in AppendSizesKB : cfg' = [cfg EXCEPT !.append = a]
    /\ latencies' = <<>>
    /\ i' = 0
    /\ pc' = "rw_read"
    /\ UNCHANGED <<entry, diskVars, runVars, outVars, seqResults, sizeIdx, operations,
                   pos, fileSizeMb, lastSample, readCount, appendCount, metaVars>>
    /\ UNCHANGED auxVars

\* "if not files: raise FileNotFoundError"
RandomNoFiles ==
    /\ pc = "rw_begin"
    /\ DOMAIN small = {}
    /\ Raise(Err("FileNotFoundError", "rw_glob"))
    /\ UNCHANGED <<cfgVars, diskVars, runVars, seqVars, rwVars, metaVars, i>>
    /\ UNCHANGED auxVars

\* sample_size = min(Config.LATENCY_SAMPLES, len(files))
RwSampleSizeUncapped == Len(files)
RwSampleSize == Min(cfg.samples, Len(files))

\* One iteration of the read loop: open, f.read(), close.
RandomRead ==
    /\ pc = "rw_read"
    /\ LET f == files[i + 1]
       IN  /\ readCount' = [readCount EXCEPT ![f] = @ + 1]
           /\ IF i < RwSampleSize
              THEN \E lat \in LatencyVals : latencies' = Append(latencies, <<"read", i, lat>>)
              ELSE UNCHANGED latencies
    /\ IF i + 1 < Len(files)
       THEN i' = i + 1 /\ UNCHANGED pc
       ELSE i' = 0 /\ pc' = "rw_append"
    /\ UNCHANGED <<cfgVars, diskVars, runVars, outVars, seqResults, sizeIdx, operations,
                   pos, fileSizeMb, lastSample, files, appendCount, metaVars>>
    /\ UNCHANGED auxVars

RandomReadFail ==
    /\ pc = "rw_read"
    /\ Raise(Err("OSError", "rw_read"))
    /\ UNCHANGED <<cfgVars, diskVars, runVars, seqVars, rwVars, metaVars, i>>
    /\ UNCHANGED auxVars

\* One iteration of the append loop: open(file_path, "ab"), write append_size bytes.
RandomAppend ==
    /\ pc = "rw_append"
    /\ LET f == files[i + 1]
       IN  /\ small' = [small EXCEPT ![f] = @ + cfg.append]
           /\ appendCount' = [appendCount EXCEPT ![f] = @ + 1]
           /\ IF i < RwSampleSize
              THEN \E lat \in LatencyVals : latencies' = Append(latencies, <<"append", i, lat>>)
              ELSE UNCHANGED latencies
    /\ IF i + 1 < Len(files)
       THEN i' = i + 1 /\ UNCHANGED pc
       ELSE i' = 0 /\ pc' = "rw_finish"
    /\ UNCHANGED <<cfgVars, large, large0, small0, meta, runVars, outVars, seqResults,
                   sizeIdx, operations, pos, fileSizeMb, lastSample, files, readCount,
                   metaVars>>
    /\ UNCHANGED auxVars

RandomAppendFail ==
    /\ pc = "rw_append"
    /\ Raise(Err("OSError", "rw_append"))
    /\ UNCHANGED <<cfgVars, diskVars, runVars, seqVars, rwVars, metaVars, i>>
    /\ UNCHANGED auxVars

\* metrics.operations_count = len(files) * 2
RandomOpsHalf == Len(files)
RandomOps == Len(files) * 2

RandomFinish ==
    /\ pc = "rw_finish"
    /\ \E elapsed \in ElapsedVals \ {0} :
         FinishPhase("random_rw",
                     <<Metric(<<"Random Read/Write Small Files", 0>>, elapsed, 0, 0,
                              RandomOps, latencies)>>)
    /\ UNCHANGED <<cfgVars, diskVars, seqVars, rwVars, metaVars, i>>
    /\ UNCHANGED auxVars

RandomFinishFail ==
    /\ pc = "rw_finish"
    /\ 0 \in ElapsedVals
    /\ Raise(Err("ZeroDivisionError", "rw_finish"))
    /\ UNCHANGED <<cfgVars, diskVars, runVars, seqVars, rwVars, metaVars, i>>
    /\ UNCHANGED auxVars

(* ------------------------- metadata operations ------------------------- *)
\* The caller passes count (0 stands for None, which "or" treats alike).
CallMetadata(cnt) ==
    /\ pc = "idle"
    /\ entry' = "metadata"
    /\ count' = cnt
    /\ pc' = BeginPc("metadata")
    /\ UNCHANGED <<cfg, diskVars, runVars, outVars, seqVars, rwVars, file_paths, created,
                   chmoded, deleted, cleaned, cleanupErrs, opsDone, exc, i>>
    /\ UNCHANGED auxVars

\* count = count or Config.METADATA_OPERATIONS_COUNT
CountOr(cnt, configured) == IF cnt = 0 THEN configured ELSE cnt

RunMetadataTests ==
    /\ pc = "md_begin"
    /\ \E c \in 1..MaxMetaCount :
         /\ cfg' = [cfg EXCEPT !.metaCount = c]
         /\ count' = CountOr(count, c)
    /\ file_paths' = <<>>
    /\ i' = 0
    /\ pc' = "md_create"
    /\ UNCHANGED <<entry, diskVars, runVars, outVars, seqVars, rwVars, created, chmoded,
                   deleted, cleaned, cleanupErrs, opsDone, exc>>
    /\ UNCHANGED auxVars

\* An operation inside the try block raised e: the except clause holds e
\* and runs the cleanup loop over file_paths.
MetaFail(e) ==
    /\ exc' = e
    /\ origErr' = e
    /\ i' = 0
    /\ pc' = "md_cleanup"
    /\ UNCHANGED <<cfgVars, diskVars, runVars, returned, callerErr, seqVars, rwVars, count,
                   file_paths, created, chmoded, deleted, cleaned, cleanupErrs, opsDone>>
    /\ UNCHANGED auxVars

\* file_path = dir_path / f"meta_{i}.txt".  The directory is SMALL_FILES_DIR,
\* which also holds the small files: <<"file", f>> is the path of small file
\* f (file_<f-1>.txt), <<"meta", idx>> the path meta_<idx>.txt.
MetaPathFile(idx) == <<"file", idx + 1>>
MetaPath(idx) == <<"meta", idx>>

\* path.exists()
PathExists(path) ==
    IF path[1] = "meta" THEN path[2] \in meta ELSE path[2] \in DOMAIN small

\* path.touch(): creates an empty file, leaves the content of an existing one.
Touch(path) ==
    /\ meta' = IF path[1] = "meta" THEN meta \cup {path[2]} ELSE meta
    /\ small' = IF path[1] = "file" /\ path[2] \notin DOMAIN small
                THEN [f \in DOMAIN small \cup {path[2]} |->
                        IF f \in DOMAIN small THEN small[f] ELSE 0]
                ELSE small

\* path.unlink() of an existing path
Unlink(path) ==
    /\ meta' = IF path[1] = "meta" THEN meta \ {path[2]} ELSE meta
    /\ small' = IF path[1] = "file"
                THEN [f \in DOMAIN small \ {path[2]} |-> small[f]]
                ELSE small

\* "for i in range(count)" has run n iterations: is the loop over?
CreateLoopEndsEarly(n) == n >= count - 1
CreateLoopEnds(n) == n >= count

\* file_path.touch(); file_paths.append(file_path)
MetaCreate ==
    /\ pc = "md_create"
    /\ i < count
    /\ Touch(MetaPath(i))
    /\ file_paths' = Append(file_paths, i)
    /\ created' = created \cup {i}
    /\ opsDone' = opsDone + 1
    /\ IF ~CreateLoopEnds(i + 1)
       THEN i' = i + 1 /\ UNCHANGED pc
       ELSE i' = 0 /\ pc' = "md_chmod"
    /\ UNCHANGED <<cfgVars, large, large0, small0, runVars, outVars, seqVars, rwVars,
                   count, chmoded, deleted, cleaned, cleanupErrs, exc>>
    /\ UNCHANGED auxVars

MetaCreateFail ==
    /\ pc = "md_create"
    /\ i < count
    /\ MetaFail(Err("OSError", "md_create"))

\* os.chmod(file_path, 0o644) for the next element of file_paths
MetaChmod ==
    /\ pc = "md_chmod"
    /\ chmoded' = chmoded \cup {file_paths[i + 1]}
    /\ opsDone' = opsDone + 1
    /\ IF i + 1 < Len(file_paths)
       THEN i' = i + 1 /\ UNCHANGED pc
       ELSE i' = 0 /\ pc' = "md_delete"
    /\ UNCHANGED <<cfgVars, diskVars, runVars, outVars, seqVars, rwVars, count, file_paths,
                   created, deleted, cleaned, cleanupErrs, exc>>
    /\ UNCHANGED auxVars

MetaChmodFail ==
    /\ pc = "md_chmod"
    /\ MetaFail(Err("OSError", "md_chmod"))

\* file_path.unlink() for the next element of file_paths
MetaDelete ==
    /\ pc = "md_delete"
    /\ Unlink(MetaPath(file_paths[i + 1]))
    /\ deleted' = deleted \cup {file_paths[i + 1]}
    /\ opsDone' = opsDone + 1
    /\ IF i + 1 < Len(file_paths)
       THEN i' = i + 1 /\ UNCHANGED pc
       ELSE i' = 0 /\ pc' = "md_finish"
    /\ UNCHANGED <<cfgVars, large, large0, small0, runVars, outVars, seqVars, rwVars,
                   count, file_paths, created, chmoded, cleaned, cleanupErrs, exc>>
    /\ UNCHANGED auxVars

MetaDeleteFail ==
    /\ pc = "md_delete"
    /\ MetaFail(Err("OSError", "md_delete"))

\* metadata_metrics.operations_count = Config.METADATA_OPERATIONS_COUNT * 3
MetadataOpsTwice == cfg.metaCount * 2
MetadataOps == cfg.metaCount * 3

\* elapsed = time.time() - start; ops_per_sec = total_ops / elapsed; return
\* elapsed.  run_all_benchmarks wraps the elapsed time in a BenchmarkMetrics.
MetaFinish ==
    /\ pc = "md_finish"
    /\ \E elapsed \in ElapsedVals \ {0} :
         FinishPhase("metadata",
                     IF entry = "run_all"
                     THEN <<Metric(<<"Metadata Operations", 0>>, elapsed, 0, 0,
                                   MetadataOps, <<>>)>>
                     ELSE elapsed)
    /\ UNCHANGED <<cfgVars, diskVars, seqVars, rwVars, metaVars, i>>
    /\ UNCHANGED auxVars

\* total_ops / elapsed raises ZeroDivisionError inside the try block.
MetaFinishFail ==
    /\ pc = "md_finish"
    /\ 0 \in ElapsedVals
    /\ MetaFail(Err("ZeroDivisionError", "md_finish"))

\* What the except clause re-raises after a cleanup unlink raised e2 and
\* "except Exception: pass" swallowed it.
AfterSuppressedLeaks(e, e2) == e2
AfterSuppressed(e, e2) == e

\* One iteration of the cleanup loop on a path that exists: unlink succeeds.
MetaCleanup ==
    /\ pc = "md_cleanup"
    /\ i < Len(file_paths)
    /\ PathExists(MetaPath(file_paths[i + 1]))
    /\ Unlink(MetaPath(file_paths[i + 1]))
    /\ cleaned' = cleaned \cup {file_paths[i + 1]}
    /\ i' = i + 1
    /\ UNCHANGED <<cfgVars, large, large0, small0, runVars, outVars, seqVars, rwVars,
                   count, file_paths, created, chmoded, deleted, cleanupErrs, opsDone, exc,
                   pc>>
    /\ UNCHANGED auxVars

\* One iteration of the cleanup loop on a path that no longer exists.
MetaCleanupSkip ==
    /\ pc = "md_cleanup"
    /\ i < Len(file_paths)
    /\ ~PathExists(MetaPath(file_paths[i + 1]))
    /\ i' = i + 1
    /\ UNCHANGED <<cfgVars, diskVars, runVars, outVars, seqVars, rwVars, metaVars, pc>>
    /\ UNCHANGED auxVars

\* One iteration of the cleanup loop whose unlink raises: the error is
\* swallowed and the file stays.
MetaCleanupFail ==
    /\ pc = "md_cleanup"
    /\ i < Len(file_paths)
    /\ PathExists(MetaPath(file_paths[i + 1]))
    /\ cleanupErrs' = cleanupErrs \cup {file_paths[i + 1]}
    /\ exc' = AfterSuppressed(exc, Err("OSError", "md_cleanup"))
    /\ i' = i + 1
    /\ UNCHANGED <<cfgVars, diskVars, runVars, outVars, seqVars, rwVars, count, file_paths,
                   created, chmoded, deleted, cleaned, opsDone, pc>>
    /\ UNCHANGED auxVars

\* The bare "raise" that ends the except clause.
MetaRaise ==
    /\ pc = "md_cleanup"
    /\ i = Len(file_paths)
    /\ pc' = "raised"
    /\ callerErr' = Reraise(exc)
    /\ UNCHANGED <<cfgVars, diskVars, runVars, returned, origErr, seqVars, rwVars, metaVars, i>>
    /\ UNCHANGED auxVars

(* --------------------------- specification ----------------------------- *)
Next ==
    \/ CallRunAll
    \/ CallSequentialWrite
    \/ CallSequentialRead
    \/ CallRandomRW
    \/ \E cnt \in 0..MaxMetaCount : CallMetadata(cnt)
    \/ SequentialWriteMultiSize
    \/ WriteOpen
    \/ WriteOpenFail
    \/ WriteChunk
    \/ WriteChunkFail
    \/ WriteFinish
    \/ WriteFinishFail
    \/ SequentialReadMultiSize
    \/ ReadNotFound
    \/ ReadOpen
    \/ ReadOpenFail
    \/ ReadChunk
    \/ ReadChunkFail
    \/ ReadFinish
    \/ ReadFinishFail
    \/ RandomFileReadWrite
    \/ RandomNoFiles
    \/ RandomRead
    \/ RandomReadFail
    \/ RandomAppend
    \/ RandomAppendFail
    \/ RandomFinish
    \/ RandomFinishFail
    \/ RunMetadataTests
    \/ MetaCreate
    \/ MetaCreateFail
    \/ MetaChmod
    \/ MetaChmodFail
    \/ MetaDelete
    \/ MetaDeleteFail
    \/ MetaFinish
    \/ MetaFinishFail
    \/ MetaCleanup
    \/ MetaCleanupSkip
    \/ MetaCleanupFail
    \/ MetaRaise

Spec == Init /\ [][Next]_vars

\* The same program while the wall clock may be set back (an NTP step, an
\* administrator) between two readings of time.time().
InitSkew == InitWith({<<1>>}, {1}, 0..1, {"set_back"}) /\ NoPercentileCall

SpecSkew == InitSkew /\ [][Next]_vars

(* -------------------------------- main --------------------------------- *)
(* main() as the sequence of the calls inside its try block.  What a step  *)
(* does to the files is modelled by the actions of Spec; here a step       *)
(* either returns or raises, and main's except clause exits with status 1. *)

\* The calls inside the try block of main, in program order.
MainSteps ==
    <<"ensure_directories", "collect_all", "generate_large_files", "generate_small_files",
      "run_all_benchmarks", "save_csv", "save_json", "generate_graph", "log_summary">>

\* The attributes class Config defines.
ConfigAttrs ==
    {"BASE_DIR", "LARGE_FILES_DIR", "SMALL_FILES_DIR", "RESULTS_BASE_DIR", "RESULTS_DIR",
     "GRAPHS_DIR", "LOG_DIR", "get_large_file_sizes_gb", "SMALL_FILE_COUNT",
     "get_small_file_size_range_kb", "SEQUENTIAL_WRITE_SIZE_MB", "RANDOM_APPEND_SIZE_KB",
     "METADATA_OPERATIONS_COUNT", "READ_BUFFER_SIZE", "get_latency_percentiles",
     "LATENCY_SAMPLES"}

\* The attributes of Config a step reads on every path through it.
StepReads(step) ==
    CASE step = "ensure_directories"   -> {"LARGE_FILES_DIR", "SMALL_FILES_DIR", "RESULTS_DIR",
                                           "GRAPHS_DIR", "LOG_DIR"}
      [] step = "collect_all"          -> {"BASE_DIR"}
      [] step = "generate_large_files" -> {"LARGE_FILES_DIR", "LARGE_FILE_SIZES_GB"}
      [] step = "generate_small_files" -> {"SMALL_FILES_DIR", "SMALL_FILE_COUNT",
                                           "SMALL_FILE_SIZE_RANGE_KB"}
      [] step = "run_all_benchmarks"   -> {"get_large_file_sizes_gb", "LARGE_FILES_DIR"}
      [] step = "save_csv"             -> {"RESULTS_DIR"}
      [] step = "save_json"            -> {"RESULTS_DIR"}
      [] step = "generate_graph"       -> {"GRAPHS_DIR"}
      [] OTHER                         -> {}

\* Reading an attribute the class does not define raises AttributeError.
RaisesAttributeError(step) == ~(StepReads(step) \subseteq ConfigAttrs)

\* The steps that operate on the filesystem, any of which may raise OSError.
IoSteps == {MainSteps[k] : k \in 1..Len(MainSteps)} \ {"log_summary"}

\* The exceptions a step can raise.
StepErrors(step) ==
    (IF RaisesAttributeError(step) THEN {Err("AttributeError", step)} ELSE {})
      \cup (IF step \in IoSteps THEN {Err("OSError", step)} ELSE {})

\* The process starts main(): setup_logging, then the try block.
CallMain ==
    /\ pc = "idle"
    /\ entry' = "main"
    /\ mainStep' = 1
    /\ pc' = "main_try"
    /\ UNCHANGED <<cfg, diskVars, runVars, outVars, seqVars, rwVars, metaVars, i, clock,
                   invoked, exitStatus, pctVars>>

\* The next step of the try block is invoked and returns; after the last
\* one main returns and the process ends with status 0.
MainStep ==
    /\ pc = "main_try"
    /\ ~RaisesAttributeError(MainSteps[mainStep])
    /\ invoked' = Append(invoked, MainSteps[mainStep])
    /\ IF mainStep < Len(MainSteps)
       THEN /\ mainStep' = mainStep + 1
            /\ UNCHANGED <<pc, exitStatus>>
       ELSE /\ mainStep' = 0
            /\ pc' = "exited"
            /\ exitStatus' = 0
    /\ UNCHANGED <<cfgVars, diskVars, runVars, outVars, seqVars, rwVars, metaVars, i, clock,
                   pctVars>>

\* The next step of the try block is invoked and raises.
MainStepFail ==
    /\ pc = "main_try"
    /\ \E e \in StepErrors(MainSteps[mainStep]) : origErr' = e
    /\ invoked' = Append(invoked, MainSteps[mainStep])
    /\ pc' = "main_except"
    /\ UNCHANGED <<cfgVars, diskVars, runVars, returned, callerErr, seqVars, rwVars, metaVars,
                   i, clock, mainStep, exitStatus, pctVars>>

\* except Exception: logger.exception("benchmark_suite_failed"); sys.exit(1)
MainExcept ==
    /\ pc = "main_except"
    /\ exitStatus' = 1
    /\ pc' = "exited"
    /\ UNCHANGED <<cfgVars, diskVars, runVars, outVars, seqVars, rwVars, metaVars, i, clock,
                   mainStep, invoked, pctVars>>

NextMain ==
    \/ CallMain
    \/ MainStep
    \/ MainStepFail
    \/ MainExcept

SpecMain == Init /\ [][NextMain]_vars

(* ------------------------ _calculate_percentiles ----------------------- *)
(* The pure function, followed on its own.  A latency is a whole number of *)
(* time units; a rank is kept in tenths of a percent (995 is 99.5), and a  *)
(* percentile value in thousandths of a time unit, so that the linear      *)
(* interpolation of np.percentile is exact.                                *)

\* Sequences over set S of length lo..hi.
SeqsOf(S, lo, hi) == UNION {[1..n -> S] : n \in lo..hi}

\* The values LATENCY_PERCENTILES can name: 0, 50, 95, 99, 99.5 and 100.
RankSet == {0, 500, 950, 990, 995, 1000}

\* f"p{int(p)}": the key of rank p is its integer part.
Label(rank) == rank \div 10

\* The sorted sequence with x inserted at its place.
RECURSIVE Insert(_, _)
Insert(x, sorted) ==
    IF sorted = <<>> THEN <<x>>
    ELSE IF x <= Head(sorted) THEN <<x>> \o sorted
         ELSE <<Head(sorted)>> \o Insert(x, Tail(sorted))

\* The sequence in ascending order.
RECURSIVE SortedSeq(_)
SortedSeq(lat) ==
    IF lat = <<>> THEN <<>> ELSE Insert(Head(lat), SortedSeq(Tail(lat)))

\* np.percentile(latencies, p), method "linear": the value at the virtual
\* index (n - 1) * p / 100 of the sorted data, in thousandths.
PercentileUnsorted(lat, rank) ==
    LET n  == Len(lat)
        h  == (n - 1) * rank
        lo == h \div 1000 + 1
        hi == IF lo < n THEN lo + 1 ELSE lo
    IN  lat[lo] * 1000 + (lat[hi] - lat[lo]) * (h % 1000)
Percentile(lat, rank) == PercentileUnsorted(SortedSeq(lat), rank)

\* The loop "for p in percentiles: result[key] = value": a later rank with
\* the key of an earlier one overwrites its entry.
RECURSIVE PercentileDict(_, _)
PercentileDict(lat, ranks) ==
    IF ranks = <<>> THEN <<>>
    ELSE LET before == PercentileDict(lat, SubSeq(ranks, 1, Len(ranks) - 1))
             p      == ranks[Len(ranks)]
         IN  [key \in DOMAIN before \cup {Label(p)} |->
                 IF key = Label(p) THEN Percentile(lat, p) ELSE before[key]]

\* _calculate_percentiles(latencies)
PercentilesOf(lat, ranks) ==
    IF lat = <<>> THEN <<>> ELSE PercentileDict(lat, ranks)

InitPct ==
    /\ InitWith({<<1>>}, {1}, {0}, {"steady"})
    /\ pctIn \in SeqsOf(0..MaxLatency, 0, MaxLatLen)
    /\ pctRanks \in SeqsOf(RankSet, 1, 2)
    /\ pctOut = <<>>
    /\ pctDone = FALSE

CalculatePercentiles ==
    /\ ~pctDone
    /\ pctOut' = PercentilesOf(pctIn, pctRanks)
    /\ pctDone' = TRUE
    /\ UNCHANGED <<cfgVars, diskVars, runVars, outVars, seqVars, rwVars, metaVars, pc, i,
                   clock, mainVars, pctIn, pctRanks>>

NextPct == CalculatePercentiles

SpecPct == InitPct /\ [][NextPct]_vars

(* ------------------------------- claims -------------------------------- *)
IsPrefix(s, t) == Len(s) <= Len(t) /\ \A k \in 1..Len(s) : s[k] = t[k]

\* The phase whose code the thread of control is in.
PhaseOfPc(p) ==
    CASE p \in {"sw_begin", "sw_open", "sw_chunk", "sw_finish"}  -> "sequential_write"
      [] p \in {"sr_begin", "sr_check", "sr_open", "sr_read", "sr_finish"} -> "sequential_read"
      [] p \in {"rw_begin", "rw_glob", "rw_read", "rw_append", "rw_finish"} -> "random_rw"
      [] p \in {"md_begin", "md_create", "md_chmod", "md_delete", "md_finish",
                "md_cleanup"} -> "metadata"
      [] OTHER -> "none"

Terminal == pc \in {"returned", "raised"}

\* C1: in run_all_benchmarks the phases start in the order sequential write,
\* sequential read, random read/write, metadata; a phase starts only after
\* every earlier phase has returned; at most one phase is started and not
\* yet returned, and it is the phase whose code is running.
C1_PhaseOrder ==
    entry = "run_all" =>
      /\ IsPrefix(started, Phases)
      /\ IsPrefix(completed, started)
      /\ Len(started) - Len(completed) <= 1
      /\ ~Terminal => /\ Len(started) = Len(completed) + 1
                      /\ PhaseOfPc(pc) = started[Len(started)]

C1_Witness ==
    /\ entry = "run_all"
    /\ started = Phases
    /\ Len(completed) = 3
    /\ pc = "md_chmod"

\* C2: when a phase of run_all_benchmarks fails, the failed phase is the last
\* one started (no later phase is started, no phase is started twice), the
\* caller gets the exception that was raised first, and nothing is returned.
C2_FailFast ==
    (entry = "run_all" /\ pc = "raised") =>
      /\ returned = <<>>
      /\ callerErr # NoErr
      /\ callerErr = origErr
      /\ Len(started) = Len(completed) + 1
      /\ PhaseOfPc(origErr.at) = started[Len(started)]
      /\ IsPrefix(started, Phases)

C2_Witness ==
    /\ entry = "run_all"
    /\ pc = "raised"
    /\ origErr.at = "rw_append"
    /\ completed = <<"sequential_write", "sequential_read">>

MetaFailed == pc = "raised" /\ PhaseOfPc(origErr.at) = "metadata"

\* C3 as stated: after run_metadata_tests failed, no file it created exists.
C3_Original ==
    MetaFailed => created \cap meta = {}

\* C3 amended: after run_metadata_tests failed, a file it created exists only
\* if the cleanup's unlink of that file raised (the cleanup issued an unlink
\* for every created file that still existed); no cleanup error reaches the
\* caller, who gets the original failure.
C3_BestEffortCleanup ==
    MetaFailed =>
      /\ meta \subseteq created
      /\ created \cap meta = cleanupErrs
      /\ cleanupErrs \cap cleaned = {}
      /\ callerErr = origErr
      /\ callerErr.at # "md_cleanup"
      /\ returned = <<>>

C3_Witness ==
    /\ MetaFailed
    /\ origErr.at = "md_create"
    /\ Cardinality(created) = 2
    /\ cleanupErrs = {0}
    /\ cleaned = {1}

\* C4: in the three passes of run_metadata_tests a chmod happens only after
\* all count files were created, and an unlink of the delete pass only after
\* all count files were chmod-ed.
C4_PhaseBarrier ==
    /\ chmoded # {} => created = 0..(count - 1)
    /\ deleted # {} => chmoded = 0..(count - 1)
    /\ chmoded \subseteq created
    /\ deleted \subseteq chmoded

C4_Witness ==
    /\ pc = "md_delete"
    /\ count >= 2
    /\ deleted # {}
    /\ deleted # chmoded

\* C5: after a successful metadata phase with count C, operations_count of
\* the metadata record is 3*C, the passes performed exactly 3*C create,
\* chmod and unlink operations, and no meta_* file exists.
C5_MetadataOps ==
    /\ (entry = "run_all" /\ pc = "returned") =>
         /\ results.metadata[1].operations_count = 3 * count
         /\ results.metadata[1].operations_count = opsDone
         /\ Cardinality(created) = count
         /\ Cardinality(chmoded) = count
         /\ Cardinality(deleted) = count
         /\ meta = {}
    /\ (entry = "metadata" /\ pc = "returned") =>
         /\ opsDone = 3 * count
         /\ meta = {}

C5_Witness ==
    /\ entry = "run_all"
    /\ pc = "returned"
    /\ count = 2
    /\ results.metadata[1].operations_count = 6

\* The records of the sizes whose sequential write has completed.
WriteRecords ==
    IF entry = "run_all" /\ Len(completed) >= 1 THEN results.sequential_write
    ELSE IF pc \in {"sw_open", "sw_chunk"} \/ (entry = "sequential_write" /\ Terminal)
         THEN seqResults
         ELSE <<>>

\* The records of the sizes whose sequential read has completed.
ReadRecords ==
    IF entry = "run_all" /\ Len(completed) >= 2 THEN results.sequential_read
    ELSE IF pc \in {"sr_check", "sr_read"} \/ (entry = "sequential_read" /\ Terminal)
         THEN seqResults
         ELSE <<>>

SizeOf(m) == m.test_name[2]

\* C6: after the sequential write of size S succeeded, the bytes written to
\* file_<S>GB.bin equal the reported file_size_mb = S*1024 MB, the numerator
\* of throughput_mbps.
C6_WrittenEqualsReported ==
    pc \in {"sw_open", "sw_chunk"} \/ (entry = "sequential_write" /\ Terminal) =>
      \A k \in 1..Len(WriteRecords) :
        LET m == WriteRecords[k]
        IN  /\ m.file_size_mb = SizeMB(SizeOf(m))
            /\ m.throughput_mbps[1] = m.file_size_mb
            /\ large[SizeOf(m)] = m.file_size_mb

\* C7: a file of configured size S MB written by the write phase and read
\* back by the read phase gives operations_count = ceil(S / buffer_size) for
\* the read (S and buffer_size in the same unit).
C7_ReadOpsOfConfiguredSize ==
    entry = "run_all" =>
      \A k \in 1..Len(ReadRecords) :
        ReadRecords[k].operations_count
          = CeilDiv(SizeMB(SizeOf(ReadRecords[k])), cfg.buffer)

\* C8: the timed interval of a sampled read operation contains its read
\* call and does not contain the processing of the returned bytes.
C8_SampleTimesReadCall ==
    lastSample.op > 0 =>
      /\ lastSample.startAt < lastSample.readAt
      /\ lastSample.readAt < lastSample.stopAt
      /\ ~(lastSample.startAt < lastSample.processAt
           /\ lastSample.processAt < lastSample.stopAt)

MissingAtStart == {s \in 1..MaxSizeGB : \E k \in 1..Len(cfg.sizes) :
                                          cfg.sizes[k] = s /\ large0[s] = Absent}

\* C9 as stated: when a configured fixture is missing at the start of
\* run_all_benchmarks, the run never creates it and never returns results.
C9_Original ==
    (entry = "run_all" /\ MissingAtStart # {}) =>
      /\ \A s \in MissingAtStart : large[s] = Absent
      /\ pc # "returned"
      /\ pc = "raised" => callerErr.kind = "FileNotFoundError"

\* C9 amended: the sequential read phase never creates or changes a fixture
\* and reads only files that exist; called with a configured fixture
\* missing it fails, with FileNotFoundError at the first missing one unless
\* an I/O or timing error of an earlier size came first.  Under
\* run_all_benchmarks the write phase has created every configured fixture
\* before the read phase starts, so the read phase never raises NotFound.
C9_ReadNeverCreates ==
    /\ entry = "sequential_read" =>
         /\ large = large0
         /\ pc = "sr_read" => large[CurSize] # Absent
         /\ (Terminal /\ MissingAtStart # {}) =>
              /\ pc = "raised"
              /\ callerErr.at = "sr_check" =>
                   /\ callerErr.kind = "FileNotFoundError"
                   /\ CurSize \in MissingAtStart
                   /\ \A k \in 1..(sizeIdx - 1) : cfg.sizes[k] \notin MissingAtStart
              /\ callerErr.at # "sr_check" =>
                   \A k \in 1..sizeIdx : cfg.sizes[k] \notin MissingAtStart
    /\ entry = "run_all" =>
         /\ callerErr.at # "sr_check"
         /\ Len(completed) >= 1 =>
              \A k \in 1..Len(cfg.sizes) : large[cfg.sizes[k]] # Absent

C9_Witness ==
    /\ entry = "sequential_read"
    /\ pc = "raised"
    /\ callerErr.kind = "FileNotFoundError"
    /\ sizeIdx = 2
    /\ large[cfg.sizes[1]] # Absent
    /\ large[cfg.sizes[2]] = Absent

\* The record returned by random_file_read_write, once it has returned.
RandomRecord ==
    IF entry = "run_all" /\ Len(completed) >= 3 THEN results.random_rw
    ELSE IF entry = "random_rw" /\ pc = "returned" THEN returned[1]
         ELSE <<>>

\* C10: a successful random_file_read_write over the N files present has
\* read every file exactly once and appended to every file exactly once,
\* reports operations_count = 2*N, and every file has grown by exactly the
\* append payload size, whatever the enumeration order.
C10_RandomTouchesEachOnce ==
    RandomRecord # <<>> =>
      /\ RandomRecord[1].operations_count = 2 * Cardinality(DOMAIN small0)
      /\ DOMAIN small = DOMAIN small0
      /\ \A f \in DOMAIN small0 :
           /\ readCount[f] = 1
           /\ appendCount[f] = 1
           /\ small[f] = small0[f] + cfg.append

C10_Witness ==
    /\ entry = "random_rw"
    /\ pc = "returned"
    /\ files = <<2, 1>>
    /\ small[2] = small0[2] + cfg.append
    /\ returned[1][1].operations_count = 4

\* C12 (as stated): in every phase and at every point of the phase, the
\* number of latency samples held is at most sample_cap.
C12_Original == Len(latencies) <= cfg.samples

\* C12: in the sequential write and sequential read phases the latencies list
\* never holds more than sample_cap samples; in the random read/write phase
\* the one list receives up to min(sample_cap, N) read samples and then up to
\* min(sample_cap, N) append samples, so it holds at most
\* 2 * min(sample_cap, N) samples, which can exceed sample_cap.
C12_SampleBound ==
    /\ PhaseOfPc(pc) \in {"sequential_write", "sequential_read"} =>
         Len(latencies) <= cfg.samples
    /\ pc \in {"rw_read", "rw_append", "rw_finish"} =>
         /\ Len(latencies) <= 2 * Min(cfg.samples, Len(files))
         /\ Cardinality({k \in 1..Len(latencies) : latencies[k][1] = "read"})
              <= cfg.samples
         /\ Cardinality({k \in 1..Len(latencies) : latencies[k][1] = "append"})
              <= cfg.samples
    /\ \A k \in 1..Len(WriteRecords) : Len(WriteRecords[k].latencies) <= cfg.samples
    /\ \A k \in 1..Len(ReadRecords) : Len(ReadRecords[k].latencies) <= cfg.samples
    /\ \A k \in 1..Len(RandomRecord) :
         Len(RandomRecord[k].latencies) <= 2 * Min(cfg.samples, Len(files))

\* The random phase over more files than the cap has sampled cap reads and
\* cap appends.
C12_Witness ==
    /\ pc = "rw_finish"
    /\ cfg.samples < Len(files)
    /\ Len(latencies) = 2 * cfg.samples

\* The chunk indices of a list of latency samples, in the order of the list.
SampledIndices(lat) == [k \in 1..Len(lat) |-> lat[k][2]]

\* C13: the sequential write of a file of T chunks samples exactly the
\* latencies of chunks 0 .. min(sample_cap, T) - 1, in chronological order,
\* and of no later chunk; while the file is being written the samples held
\* are those of the chunks written so far that are among these.
C13_WriteSamplesPrefix ==
    /\ \A k \in 1..Len(WriteRecords) :
         LET m == WriteRecords[k]
             T == TotalChunks(SizeOf(m))
         IN  /\ m.operations_count = T
             /\ SampledIndices(m.latencies) = [j \in 1..Min(cfg.samples, T) |-> j - 1]
             /\ \A j \in 1..Len(m.latencies) : m.latencies[j][1] = "write"
    /\ pc = "sw_chunk" =>
         SampledIndices(latencies) =
           [j \in 1..Min(i, Min(cfg.samples, TotalChunks(CurSize))) |-> j - 1]

\* Both cases of the minimum: a 2 GB file of 20 chunks under a cap of 2, and
\* a 1 GB file of 10 chunks under a cap of 12.
C13_Witness ==
    /\ Len(WriteRecords) = 1
    /\ \/ /\ cfg.samples = 2
          /\ WriteRecords[1].operations_count = 20
          /\ SampledIndices(WriteRecords[1].latencies) = <<0, 1>>
       \/ /\ cfg.samples = 12
          /\ WriteRecords[1].operations_count = 10
          /\ Len(WriteRecords[1].latencies) = 10

\* The sizes of a list of records, in the order of the list.
SizesOf(recs) == [k \in 1..Len(recs) |-> SizeOf(recs[k])]

\* C14: within the sequential write phase and within the sequential read
\* phase the sizes are processed in the configured order: while size number
\* sizeIdx is in progress the records so far are those of the first
\* sizeIdx - 1 configured sizes, in that order; the returned list holds one
\* record per configured size in the configured order; and when the write of
\* one size fails, the file of every later size is as it was before the call.
C14_ConfiguredOrder ==
    /\ pc \in {"sw_open", "sw_chunk", "sr_check", "sr_open", "sr_read"} =>
         SizesOf(seqResults) = SubSeq(cfg.sizes, 1, sizeIdx - 1)
    /\ (entry \in {"sequential_write", "sequential_read"} /\ pc = "returned") =>
         SizesOf(returned[1]) = cfg.sizes
    /\ (entry = "run_all" /\ Len(completed) >= 1) =>
         SizesOf(results.sequential_write) = cfg.sizes
    /\ (entry = "run_all" /\ Len(completed) >= 2) =>
         SizesOf(results.sequential_read) = cfg.sizes
    /\ (pc = "raised" /\ PhaseOfPc(origErr.at) \in {"sequential_write", "sequential_read"}) =>
         /\ SizesOf(seqResults) = SubSeq(cfg.sizes, 1, sizeIdx - 1)
         /\ PhaseOfPc(origErr.at) = "sequential_write" =>
              \A k \in (sizeIdx + 1)..Len(cfg.sizes) :
                  large[cfg.sizes[k]] = large0[cfg.sizes[k]]

\* Sizes configured in descending order: the write of the first one (2 GB)
\* failed after the file was opened, and the 1 GB file was not touched.
C14_Witness ==
    /\ cfg.sizes = <<2, 1>>
    /\ pc = "raised"
    /\ origErr.at = "sw_chunk"
    /\ sizeIdx = 1
    /\ large[2] # large0[2]
    /\ large[1] = large0[1]

\* C20: every step of run_metadata_tests, on the success path and on the
\* failure path including the cleanup, leaves the set of small files and
\* their sizes (and the large files) as they were, and the paths it has
\* created, chmod-ed, unlinked or cleaned up, and the meta files present, are
\* meta_<i>.txt with i in [0, C).
C20_MetadataFrame ==
    [][PhaseOfPc(pc) = "metadata" =>
         /\ small' = small
         /\ large' = large
         /\ meta' \cup created' \cup chmoded' \cup deleted' \cup cleaned'
              \subseteq 0..(count' - 1)]_vars

\* After the random phase has grown two small files, the delete pass of the
\* metadata phase failed and the cleanup removed meta files; the small files
\* are as the random phase left them.
C20_Witness ==
    /\ entry = "run_all"
    /\ pc = "raised"
    /\ origErr.at = "md_delete"
    /\ deleted # {}
    /\ cleaned # {}
    /\ DOMAIN small = {1, 2}
    /\ \A f \in {1, 2} : small[f] = small0[f] + cfg.append

\* Every record produced so far, by a completed phase or a completed size.
AllRecords ==
    {WriteRecords[k] : k \in 1..Len(WriteRecords)}
      \cup {ReadRecords[k] : k \in 1..Len(ReadRecords)}
      \cup {RandomRecord[k] : k \in 1..Len(RandomRecord)}
      \cup {results.metadata[k] : k \in 1..Len(results.metadata)}

\* A ratio <<numerator, denominator>> with a non-zero denominator is positive.
Positive(ratio) == ratio[1] * ratio[2] > 0

\* C15 (as stated): every record that reports operations_count > 0 or
\* throughput_mbps > 0 has elapsed_seconds > 0; a zero or negative elapsed
\* time makes the phase fail instead of producing a record.
C15_PositiveElapsed ==
    \A m \in AllRecords :
        (m.operations_count > 0 \/ Positive(m.throughput_mbps)) => m.elapsed_sec > 0

\* C16 (as stated): every duration measured (the elapsed time of a phase or
\* of a size, the elapsed time returned by run_metadata_tests, each latency
\* sample) is non-negative, also when the wall clock is set back.
C16_DurationsNonNegative ==
    /\ \A m \in AllRecords :
         /\ m.elapsed_sec >= 0
         /\ \A k \in 1..Len(m.latencies) : m.latencies[k][3] >= 0
    /\ \A k \in 1..Len(latencies) : latencies[k][3] >= 0
    /\ (entry = "metadata" /\ pc = "returned") => returned[1] >= 0

\* The distinct configured ranks.
ConfiguredRanks == {pctRanks[k] : k \in 1..Len(pctRanks)}

\* C11 (as stated): the mapping returned for a non-empty sample list has
\* exactly one key per configured rank, the keys of the configured ranks;
\* for an empty sample list it is empty.
C11_KeysAreConfiguredRanks ==
    pctDone =>
      IF pctIn = <<>> THEN pctOut = <<>>
      ELSE /\ DOMAIN pctOut = {Label(r) : r \in ConfiguredRanks}
           /\ Cardinality(DOMAIN pctOut) = Cardinality(ConfiguredRanks)

Max(lat) == CHOOSE x \in {lat[k] : k \in 1..Len(lat)} : \A k \in 1..Len(lat) : lat[k] <= x

\* C18: for a non-empty latency list the values returned are non-decreasing
\* in rank, rank 100 yields the maximum sample, a single sample is the value
\* of every requested percentile, and every reordering of the input yields
\* the same mapping.
C18_PercentilesMonotone ==
    (pctDone /\ pctIn # <<>>) =>
      /\ \A k1, k2 \in DOMAIN pctOut : k1 <= k2 => pctOut[k1] <= pctOut[k2]
      /\ \A r1, r2 \in RankSet :
           r1 <= r2 => Percentile(pctIn, r1) <= Percentile(pctIn, r2)
      /\ 100 \in DOMAIN pctOut => pctOut[100] = 1000 * Max(pctIn)
      /\ Len(pctIn) = 1 => \A key \in DOMAIN pctOut : pctOut[key] = 1000 * pctIn[1]
      /\ \A q \in Perms(1..Len(pctIn)) :
           PercentilesOf([k \in 1..Len(pctIn) |-> pctIn[q[k]]], pctRanks) = pctOut

\* An unsorted list of three samples under ranks 50 and 100: the median and
\* the maximum.
C18_Witness ==
    /\ pctDone
    /\ pctIn = <<3, 0, 1>>
    /\ pctRanks = <<500, 1000>>
    /\ pctOut[50] = 1000
    /\ pctOut[100] = 3000

\* C19 (as stated): when no filesystem operation fails, main invokes its
\* steps in program order up to the last one and the process does not end
\* with status 1.
C19_MainCompletes ==
    (pc = "exited" /\ origErr.kind # "OSError") =>
      /\ exitStatus # 1
      /\ invoked = MainSteps

====
